---- MODULE Spec2Model ----
(***************************************************************************)
(* Model of src/index.js: the download pass (downloadAllPdfs, downloadPdf, *)
(* getBatchFolder, generateChecksum) and the verification pass             *)
(* (verifyChecksums) over the download directory.                          *)
(*                                                                         *)
(* The download directory outlives the process.  The model starts from the *)
(* directory left by earlier passes over the first Settled entries of the  *)
(* listing, so that a pass reaches the 500-entry folder boundary with a    *)
(* handful of downloads in flight.                                         *)
(*                                                                         *)
(* The names 1..Settled-1 (Ballast) are stored in Batch_1 by those passes  *)
(* and no step of the model writes or removes them.  Their files are kept  *)
(* implicit (existsSync and readFile answer for them) and a checksum       *)
(* object holds their entries as one flag: all of them, or none.  The      *)
(* other names (Window) are kept explicitly.                               *)
(*                                                                         *)
(* One action is one turn of the event loop: the code between two awaits.  *)
(* A stretch of groups in which every member is skipped performs no I/O    *)
(* wait (Promise.all of settled promises), so the loop of downloadAllPdfs  *)
(* runs through such groups within the action that reaches them.          *)
(***************************************************************************)
EXTENDS Integers, Sequences, FiniteSets, TLC

\* ------------------------------------------------------------ bounds
Settled == 495      \* listing entries downloaded by earlier passes
MaxNew == 6         \* entries the listing can hold beyond Settled
MaxTroubles == 1    \* I/O failures and changes from outside in one behaviour

\* ------------------------------------------------------------ program constants
batchSize == 500
CHUNK_SIZE == 5

\* ------------------------------------------------------------ values
\* A file's content is a sequence of bytes, a digest is a natural number.
\* A JSON file is << >> while it does not exist and <<content>> once written.
Absent == << 0 - 1 >>        \* fs.existsSync(path) = false
NoFile == << >>              \* index.json / checksums.json does not exist
NoEntry == 0 - 1             \* checksums[fileName] === undefined
NoRun == << >>               \* no completed pass to compare with

MaxLen == Settled + MaxNew
Names == 0..MaxLen
Ballast == 1..(Settled - 1)
Window == {0} \cup (Settled..MaxLen)
DirA == "/files/jfk/releases/2025/0318"
DirB == "/files/jfk/releases/2025/0320"

Min(S) == CHOOSE x \in S : \A y \in S : x <= y
Least(a, b) == IF a <= b THEN a ELSE b

\* path.basename(url): the last segment of the locator
basename(url) == url[Len(url)]

\* The bytes the server returns for a locator.
Body(url) == << (IF url[1] = DirA THEN 1 ELSE 2) + 2 * (url[2] % 2) >>

\* getBatchFolder(idx): the number of the Batch_ folder (the folder is
\* created by the step that calls it, see Loop).
getBatchFolder(idx) == (idx \div batchSize) + 1

Batches == 1..getBatchFolder(MaxLen + 1)

\* generateChecksum: an MD5 digest, modelled as a hash into a finite space
\* (equal contents give equal digests).
DigestSpace == 16
RECURSIVE md5(_)
md5(bytes) ==
  IF bytes = << >> THEN 0
  ELSE (md5(SubSeq(bytes, 1, Len(bytes) - 1)) * 4 + bytes[Len(bytes)] + 1) % DigestSpace

\* fs.statSync(filePath).size
statSize(bytes) == Len(bytes)

\* A listing is held by its length and its shape; At(links, p) is links[p - 1]
\* of the code (p is 1-based) and Length(links) is links.length.
\* "plain": entries 1..len in catalogue order; "grown": one new entry was
\* added at the top of the table, every other entry moved down by one;
\* "shrunk": the first entry was taken off the table, every other entry moved
\* up by one; "twinA", "twinB": as "plain", but the last entry is a file of
\* another release directory with the name of entry batchSize (twinA) or
\* of entry batchSize - 1 (twinB).
Listing(len, variant) == << len, variant >>
Length(links) == links[1]
At(links, p) ==
  IF links[2] = "plain" THEN <<DirA, p>>
  ELSE IF links[2] = "grown" THEN <<DirA, p - 1>>
  ELSE IF links[2] = "shrunk" THEN <<DirA, p + 1>>
  ELSE IF p < links[1] THEN <<DirA, p>>
  ELSE IF links[2] = "twinA" THEN <<DirB, batchSize>> ELSE <<DirB, batchSize - 1>>
NoLinks == Listing(0, "plain")
\* What discovery can return: nothing (also when it fails), the entries
\* stored so far, the whole catalogue, the whole catalogue after it grew,
\* the whole catalogue after it lost its first entry.
Listings ==
  {NoLinks, Listing(Settled, "plain"), Listing(MaxLen, "plain"), Listing(MaxLen, "grown"),
   Listing(MaxLen - 1, "shrunk")}

\* Listings in which two entries have the same file name.
TwinListings == {Listing(MaxLen, "twinA"), Listing(MaxLen, "twinB")}

\* The positions of a listing that hold a name of the Window.
ActivePos(links) ==
  {p \in {1} \cup ((Settled - 1)..MaxLen) :
     p <= Length(links) /\ basename(At(links, p)) \in Window}

\* ------------------------------------------------------------ checksum objects
\* old: the entries of the Ballast names (all or none); new: the others.
EmptyStore == [old |-> FALSE, new |-> [n \in Window |-> NoEntry]]
Get(cs, n) ==
  IF n \in Ballast THEN (IF cs.old THEN md5(Body(<<DirA, n>>)) ELSE NoEntry) ELSE cs.new[n]
\* A faulty update: the task fills an object of its own.
PutAlone(cs, n, digest) == [EmptyStore EXCEPT !.new[n] = digest]

\* checksums[fileName] = checksum
Put(cs, n, digest) == [cs EXCEPT !.new[n] = digest]
\* the entry of name n in checksums.json, NoEntry if the file is not there
Entry(cf, n) == IF cf = NoFile THEN NoEntry ELSE Get(cf[1], n)

\* ------------------------------------------------------------ state
VARIABLES
  pc,           \* "menu" | "run" | "killed" | "crashed" | "adrift"
  files,        \* files[b][n]: content of Batch_b/n for n in Window, or Absent
  dirs,         \* the Batch_ folders that exist
  checksumFile, \* checksums.json: NoFile or <<checksum object>>
  indexFile,    \* index.json: NoFile or <<the sequence of records>>
  pdfLinks,     \* downloadAllPdfs: the discovered locators
  i,            \* downloadAllPdfs: loop variable (0-based start of the group)
  st,           \* st[p]: where downloadPdf of position p stands (p in ActivePos)
  indexData,    \* downloadAllPdfs: this pass's records
  checksums,    \* downloadAllPdfs: the in-memory checksum object
  fetched,      \* positions for which this pass called axios GET
  loaded,       \* the checksum object as loaded when this pass began
  lastOp,       \* the operation that completed last
  lastLinks,    \* <<listing of the last completed pass>>, NoRun after a change
  rerun,        \* "no" | "same" | "settled": how this pass relates to the last
  report,       \* result of the last verifyChecksums
  origin,       \* origin[n]: the folder of the file whose digest is n's entry
  unhashed,     \* <<b, n>>: Batch_b/n was written in full and its hashing failed
  tampered,     \* a file was changed or removed from outside
  troubles      \* I/O failures and outside changes so far

vars == << pc, files, dirs, checksumFile, indexFile, pdfLinks, i, st, indexData,
           checksums, fetched, loaded, lastOp, lastLinks, rerun, report, origin,
           unhashed, tampered, troubles >>

\* A record whose digest was taken of the file before its bytes were there.
RecordEarly(url, bytes, digest) ==
  [fileName |-> basename(url), url |-> url, size |-> statSize(bytes), checksum |-> md5(<< >>)]

\* The object pushed to indexData.
Record(url, bytes, digest) ==
  [fileName |-> basename(url), url |-> url, size |-> statSize(bytes), checksum |-> digest]

NoVerdict == [old |-> "none", new |-> [n \in Window |-> "none"]]
NoReport == [outcome |-> "none", result |-> NoVerdict, listed |-> {}, hashed |-> 0]

\* The directory as left by earlier passes: entries 1..Settled of the plain
\* listing are stored and checksummed; the last pass found them all stored.
Init ==
  /\ pc = "menu"
  /\ files = [b \in Batches |-> [n \in Window |->
                IF b = getBatchFolder(n) /\ n \in 1..Settled THEN Body(<<DirA, n>>) ELSE Absent]]
  /\ dirs = {getBatchFolder(n) : n \in 1..Settled}
  /\ checksumFile = << [old |-> TRUE,
                        new |-> [n \in Window |->
                          IF n \in 1..Settled THEN md5(Body(<<DirA, n>>)) ELSE NoEntry]] >>
  /\ indexFile = << << >> >>
  /\ pdfLinks = NoLinks
  /\ i = 0
  /\ st = << >>
  /\ indexData = << >>
  /\ checksums = EmptyStore
  /\ fetched = {}
  /\ loaded = EmptyStore
  /\ lastOp = "none"
  /\ lastLinks = << Listing(Settled, "plain") >>
  /\ rerun = "no"
  /\ report = NoReport
  /\ origin = [n \in Window |-> IF n \in 1..Settled THEN getBatchFolder(n) ELSE 0]
  /\ unhashed = {}
  /\ tampered = FALSE
  /\ troubles = 0

\* The variables of a pass while no pass is under way.
Blank ==
  /\ pdfLinks' = NoLinks
  /\ i' = 0
  /\ st' = << >>
  /\ indexData' = << >>
  /\ checksums' = EmptyStore
  /\ fetched' = {}
  /\ loaded' = EmptyStore
  /\ rerun' = "no"

\* ------------------------------------------------------------ download pass
Done == {"skip", "ok", "fail"}            \* the promise of downloadPdf has settled
InFlight == {"fetch", "write", "hash", "hung"}

\* fs.existsSync(filePath)
existsSync(f, b, n) == IF n \in Ballast THEN b = getBatchFolder(n) ELSE f[b][n] # Absent

\* the bytes of an existing file
readFile(f, b, n) == IF n \in Ballast THEN Body(<<DirA, n>>) ELSE f[b][n]

\* A faulty slice, one entry too long: pdfLinks.slice(g, g + CHUNK_SIZE + 1).
ChunkWide(g, len) == (g + 1)..Least(g + CHUNK_SIZE + 1, len)

\* pdfLinks.slice(g, g + CHUNK_SIZE): the 1-based positions of the group at g
Chunk(g, len) == (g + 1)..Least(g + CHUNK_SIZE, len)

\* the start of the group that position p belongs to
GroupOf(p) == CHUNK_SIZE * ((p - 1) \div CHUNK_SIZE)

\* the value of the loop variable when the for loop ends
LoopEnd(len) == CHUNK_SIZE * ((len + CHUNK_SIZE - 1) \div CHUNK_SIZE)

\* where downloadPdf of position p stands
StatusAt(p) ==
  IF p \in DOMAIN st THEN st[p] ELSE IF p <= i + CHUNK_SIZE THEN "skip" ELSE "idle"

\* A faulty wait: downloadPdf without its catch block rejects on a failure,
\* and Promise.all rejects with the first rejection while the siblings run.
PromiseAllFailFast(s, g, len) ==
  \/ \A p \in Chunk(g, len) \cap DOMAIN s : s[p] \in Done
  \/ \E p \in Chunk(g, len) \cap DOMAIN s : s[p] = "fail"

\* await Promise.all(chunk): every promise of the group has settled
PromiseAll(s, g, len) == \A p \in Chunk(g, len) \cap DOMAIN s : s[p] \in Done

\* A faulty load: the pass starts from an empty object whatever the file holds.
loadNothing(cf) == EmptyStore

\* checksums = existsSync(CHECKSUM_FILE) ? readJsonSync(CHECKSUM_FILE) : {}
loadChecksums(cf) == IF cf = NoFile THEN EmptyStore ELSE cf[1]

\* A faulty save: the checksum file is left for the end of the pass.
saveLater(cf, cs) == cf

\* fs.writeJsonSync(CHECKSUM_FILE, checksums)
saveChecksums(cf, cs) == << cs >>

\* A faulty write of the index: the records are added to those in the file.
writeIndexAppend(old, data) == IF old = NoFile THEN << data >> ELSE << old[1] \o data >>

\* A faulty write of the index: the records last first.
writeIndexReversed(old, data) == << [k \in DOMAIN data |-> data[Len(data) + 1 - k]] >>

\* fs.writeJsonSync(INDEX_FILE, indexData)
writeIndex(old, data) == << data >>

\* A faulty existence test: the path lacks the folder, path.join(DOWNLOAD_DIR,
\* fileName), where no file is ever written.
StoredFlat(f, links, p) == FALSE

\* downloadPdf up to its first await, for position p: the folder, the path,
\* the existence test.
Stored(f, links, p) == existsSync(f, getBatchFolder(p), basename(At(links, p)))

\* A download pass that leaves out an entry whose file name an earlier
\* entry of the listing has.
UnstoredFirst(g0, links) ==
  {p \in ActivePos(links) :
     /\ p > g0 /\ ~Stored(files, links, p)
     /\ \A r \in ActivePos(links) : r < p => basename(At(links, r)) # basename(At(links, p))}

\* The positions after g0 whose file is not there.
Unstored(g0, links) == {p \in ActivePos(links) : p > g0 /\ ~Stored(files, links, p)}

\* The for loop of downloadAllPdfs from group start g0 on, up to the first
\* group that has to wait for I/O, or to the end of the pass.
\* (The sets bound by \E hold one value each: the value is computed once.)
Loop(g0, links, s, data) ==
  \E len \in {Length(links)}, todo \in {Unstored(g0, links)} :
    IF todo = {}
    THEN /\ st' = [p \in DOMAIN s |-> IF p > g0 THEN "skip" ELSE s[p]]
         /\ i' = LoopEnd(len)
         /\ fetched' = (IF g0 = 0 THEN {} ELSE fetched)
         /\ dirs' = dirs \cup {getBatchFolder(p) : p \in 1..len}
         /\ indexFile' = writeIndex(indexFile, data)
         /\ pc' = "menu"
         /\ lastOp' = "download"
         /\ lastLinks' = << links >>
    ELSE \E g \in {GroupOf(Min(todo))} :
         \E fetch \in {{p \in todo : p \in Chunk(g, len)}} :
           /\ st' = [p \in DOMAIN s |->
                       IF p <= g0 THEN s[p]
                       ELSE IF p <= g THEN "skip"
                       ELSE IF p \in fetch THEN "fetch"
                       ELSE IF p \in Chunk(g, len) THEN "skip" ELSE "idle"]
           /\ i' = g
           /\ fetched' = (IF g0 = 0 THEN {} ELSE fetched) \cup fetch
           /\ dirs' = dirs \cup {getBatchFolder(p) : p \in 1..Least(g + CHUNK_SIZE, len)}
           /\ indexFile' = indexFile
           /\ pc' = "run"
           /\ lastOp' = "none"
           /\ lastLinks' = NoRun

\* Every entry of the listing has a file at the path of its position (read
\* from the directory itself).
AllStored(links) ==
  \A p \in ActivePos(links) : files[getBatchFolder(p)][basename(At(links, p))] # Absent

\* Menu choice 2: getPdfLinks (a failed discovery returns []), the load of
\* the checksum object, and the loop up to its first wait.
downloadAllPdfs(links) ==
  /\ pc = "menu"
  /\ pdfLinks' = links
  /\ indexData' = << >>
  /\ checksums' = loadChecksums(checksumFile)
  /\ loaded' = loadChecksums(checksumFile)
  /\ rerun' = IF << links >> # lastLinks THEN "no"
              ELSE IF AllStored(links) THEN "settled" ELSE "same"
  /\ Loop(0, links, [p \in ActivePos(links) |-> "idle"], << >>)
  /\ report' = NoReport
  /\ UNCHANGED << files, checksumFile, origin, unhashed, tampered, troubles >>

\* The continuation of downloadAllPdfs after await Promise.all(chunk).
Barrier ==
  /\ pc = "run"
  /\ PromiseAll(st, i, Length(pdfLinks))
  /\ Loop(i + CHUNK_SIZE, pdfLinks, st, indexData)
  /\ UNCHANGED << files, checksumFile, pdfLinks, indexData, checksums, loaded, rerun,
                  report, origin, unhashed, tampered, troubles >>

Running(p) == pc \in {"run", "adrift"} /\ p \in Chunk(i, Length(pdfLinks)) \cap DOMAIN st
Folder(p) == getBatchFolder(p)
FileName(p) == basename(At(pdfLinks, p))
Prefixes(bytes) == {SubSeq(bytes, 1, k) : k \in 0..(Len(bytes) - 1)}

taskFrame == << dirs, indexFile, pdfLinks, i, fetched, loaded, lastOp, lastLinks, rerun,
                report >>

\* await axios(...) rejects: the catch block reports the error.
FetchFail(p) ==
  /\ Running(p) /\ st[p] = "fetch" /\ troubles < MaxTroubles
  /\ st' = [st EXCEPT ![p] = "fail"]
  /\ troubles' = troubles + 1
  /\ UNCHANGED << pc, files, checksumFile, indexData, checksums, origin, unhashed,
                  tampered >>
  /\ UNCHANGED taskFrame

\* await axios(...) resolves: fs.createWriteStream creates the file and the
\* response is piped into it.
FetchOk(p) ==
  /\ Running(p) /\ st[p] = "fetch"
  /\ st' = [st EXCEPT ![p] = "write"]
  /\ files' = [files EXCEPT ![Folder(p)][FileName(p)] = << >>]
  /\ UNCHANGED << pc, checksumFile, indexData, checksums, origin, unhashed, tampered,
                  troubles >>
  /\ UNCHANGED taskFrame

\* writer 'finish': every byte of the response is in the file.
WriteFinish(p) ==
  /\ Running(p) /\ st[p] = "write"
  /\ st' = [st EXCEPT ![p] = "hash"]
  /\ files' = [files EXCEPT ![Folder(p)][FileName(p)] = Body(At(pdfLinks, p))]
  /\ UNCHANGED << pc, checksumFile, indexData, checksums, origin, unhashed, tampered,
                  troubles >>
  /\ UNCHANGED taskFrame

\* writer 'error' (disk full, I/O error): the promise rejects, the catch
\* block reports the error; what was written stays in the file.
WriteError(p) ==
  /\ Running(p) /\ st[p] = "write" /\ troubles < MaxTroubles
  /\ \E part \in Prefixes(Body(At(pdfLinks, p))) :
       files' = [files EXCEPT ![Folder(p)][FileName(p)] = part]
  /\ st' = [st EXCEPT ![p] = "fail"]
  /\ troubles' = troubles + 1
  /\ UNCHANGED << pc, checksumFile, indexData, checksums, origin, unhashed, tampered >>
  /\ UNCHANGED taskFrame

\* The response stream fails in mid-transfer.  pipe() neither ends nor
\* fails the writer, and only the writer's events settle the promise: the
\* task never settles.
TransferAbort(p) ==
  /\ Running(p) /\ st[p] = "write" /\ troubles < MaxTroubles
  /\ \E part \in Prefixes(Body(At(pdfLinks, p))) :
       files' = [files EXCEPT ![Folder(p)][FileName(p)] = part]
  /\ st' = [st EXCEPT ![p] = "hung"]
  /\ troubles' = troubles + 1
  /\ UNCHANGED << pc, checksumFile, indexData, checksums, origin, unhashed, tampered >>
  /\ UNCHANGED taskFrame

\* await generateChecksum resolves; the entry, the record and the save of
\* the checksum file follow without a further await.
HashOk(p) ==
  /\ Running(p) /\ st[p] = "hash"
  /\ \E bytes \in {readFile(files, Folder(p), FileName(p))} :
     \E checksum \in {md5(bytes)} :
       /\ checksums' = Put(checksums, FileName(p), checksum)
       /\ indexData' = Append(indexData, Record(At(pdfLinks, p), bytes, checksum))
  /\ checksumFile' = saveChecksums(checksumFile, checksums')
  /\ origin' = [origin EXCEPT ![FileName(p)] = Folder(p)]
  /\ st' = [st EXCEPT ![p] = "ok"]
  /\ UNCHANGED << pc, files, unhashed, tampered, troubles >>
  /\ UNCHANGED taskFrame

\* A catch block that tidies up: it removes the file it could not hash.
HashFailCleanup(p) ==
  /\ Running(p) /\ st[p] = "hash" /\ troubles < MaxTroubles
  /\ st' = [st EXCEPT ![p] = "fail"]
  /\ files' = [files EXCEPT ![Folder(p)][FileName(p)] = Absent]
  /\ unhashed' = unhashed \cup {<< Folder(p), FileName(p) >>}
  /\ troubles' = troubles + 1
  /\ UNCHANGED << pc, checksumFile, indexData, checksums, origin, tampered >>
  /\ UNCHANGED taskFrame

\* await generateChecksum rejects (read error): the catch block reports.
HashFail(p) ==
  /\ Running(p) /\ st[p] = "hash" /\ troubles < MaxTroubles
  /\ st' = [st EXCEPT ![p] = "fail"]
  /\ unhashed' = unhashed \cup {<< Folder(p), FileName(p) >>}
  /\ troubles' = troubles + 1
  /\ UNCHANGED << pc, files, checksumFile, indexData, checksums, origin, tampered >>
  /\ UNCHANGED taskFrame

\* fs.ensureDirSync throws inside getBatchFolder, which downloadPdf calls
\* before its try block: the promise of downloadPdf rejects without a
\* request, Promise.all rejects as soon as the group has been launched and
\* downloadAllPdfs and mainMenu reject with it.  Nothing handles that
\* rejection.  Depending on the runtime the process ends at once
\* ("crashed"), or lives on without loop and menu until the downloads
\* already launched have settled ("adrift").
EnsureDirFail(p) ==
  /\ pc = "run" /\ troubles < MaxTroubles
  /\ p \in Chunk(i, Length(pdfLinks)) \cap DOMAIN st /\ st[p] = "fetch"
  /\ \A q \in Chunk(i, Length(pdfLinks)) \cap DOMAIN st : st[q] \in {"fetch", "skip"}
  /\ troubles' = troubles + 1
  /\ \/ /\ pc' = "crashed"
        /\ Blank
     \/ /\ pc' = "adrift"
        /\ st' = [st EXCEPT ![p] = "nodir"]
        /\ fetched' = fetched \ {p}
        /\ UNCHANGED << pdfLinks, i, indexData, checksums, loaded, rerun >>
  /\ UNCHANGED << files, dirs, checksumFile, indexFile, lastOp, lastLinks, report,
                  origin, unhashed, tampered >>

\* The process ends during a pass (a signal, a power loss, an unhandled
\* stream error): memory is gone, the directory stays as it is.
Interrupt ==
  /\ pc = "run"
  /\ pc' = "killed"
  /\ Blank
  /\ UNCHANGED << files, dirs, checksumFile, indexFile, lastOp, lastLinks, report,
                  origin, unhashed, tampered, troubles >>

\* ------------------------------------------------------------ verification pass
\* fs.readdirSync(DOWNLOAD_DIR).filter(startsWith('Batch_')): the folders in
\* the order the file system lists them, which the code does not control.
Orders(S) == {o \in [1..Cardinality(S) -> S] : \A a, b \in DOMAIN o : a # b => o[a] # o[b]}

\* The inner for loop: the first listed folder that holds the name, 0 if none.
FindFile(f, order, n) ==
  LET hits == {k \in DOMAIN order : existsSync(f, order[k], n)}
  IN  IF hits = {} THEN 0 ELSE order[Min(hits)]

\* One iteration of the outer loop: the verdict on one entry.
Verdict(f, order, n, originalHash) ==
  LET b == FindFile(f, order, n)
  IN  IF b = 0 THEN "MISSING"
      ELSE IF md5(readFile(f, b, n)) # originalHash THEN "CORRUPTED" ELSE "OK"

\* The verdicts of the outer loop.  The Ballast entries, if there, all get
\* the verdict of the first of them.
Verdicts(cs, f, order) ==
  [old |-> IF cs.old THEN Verdict(f, order, Min(Ballast), Get(cs, Min(Ballast))) ELSE "none",
   new |-> [n \in Window |->
              IF cs.new[n] = NoEntry THEN "none" ELSE Verdict(f, order, n, cs.new[n])]]

VerdictOn(result, n) == IF n \in Ballast THEN result.old ELSE result.new[n]

\* What the pass reports: the verdicts, whether corruptedFiles is empty, the
\* folders listed and the number of files hashed.
VerifyReport(result, order) ==
  [outcome |-> IF \E n \in Names : VerdictOn(result, n) \in {"MISSING", "CORRUPTED"}
               THEN "problems" ELSE "intact",
   result |-> result,
   listed |-> IF \A n \in Names : VerdictOn(result, n) = "none"
              THEN {} ELSE {order[k] : k \in DOMAIN order},
   hashed |-> Cardinality({n \in Names : VerdictOn(result, n) \in {"OK", "CORRUPTED"}})]

NoChecksums == [outcome |-> "nochecksums", result |-> NoVerdict, listed |-> {}, hashed |-> 0]

\* A faulty pass without the test for the checksum file: a file that is not
\* there counts as an empty one.
verifyUnguarded ==
  /\ pc = "menu"
  /\ \E order \in Orders(dirs) :
     \E result \in {Verdicts(loadChecksums(checksumFile), files, order)} :
       report' = VerifyReport(result, order)
  /\ lastOp' = "verify"
  /\ Blank
  /\ UNCHANGED << pc, files, dirs, checksumFile, indexFile, lastLinks, origin,
                  unhashed, tampered, troubles >>

\* A faulty pass that drops the entries of the files it finds no more and
\* saves the checksum file.
verifyPruning ==
  /\ pc = "menu"
  /\ IF checksumFile = NoFile
     THEN report' = NoChecksums /\ checksumFile' = checksumFile
     ELSE \E order \in Orders(dirs) :
          \E result \in {Verdicts(checksumFile[1], files, order)} :
            /\ report' = VerifyReport(result, order)
            /\ checksumFile' =
                 << [old |-> checksumFile[1].old /\ result.old # "MISSING",
                     new |-> [n \in Window |->
                                IF result.new[n] = "MISSING" THEN NoEntry
                                ELSE checksumFile[1].new[n]]] >>
  /\ lastOp' = "verify"
  /\ Blank
  /\ UNCHANGED << pc, files, dirs, indexFile, lastLinks, origin, unhashed, tampered,
                  troubles >>

\* Menu choice 3.  Nothing else runs between its awaits, so the pass is one
\* step.
verifyChecksums ==
  /\ pc = "menu"
  /\ IF checksumFile = NoFile
     THEN report' = NoChecksums
     ELSE \E order \in Orders(dirs) :
          \E result \in {Verdicts(checksumFile[1], files, order)} :
            report' = VerifyReport(result, order)
  /\ lastOp' = "verify"
  /\ Blank
  /\ UNCHANGED << pc, files, dirs, checksumFile, indexFile, lastLinks, origin,
                  unhashed, tampered, troubles >>

\* ------------------------------------------------------------ the directory's owner
\* Changes made from outside while the program waits at its menu.  They
\* are limited to two names: one stored by an earlier pass and the one next
\* to the folder boundary.
Touchable == {Settled, batchSize - 1}
Damage == {<< >>, <<0>>}

envFrame == << pc, dirs, indexFile, origin, unhashed >>

RemoveFile(b, n) ==
  /\ pc = "menu" /\ troubles < MaxTroubles
  /\ files[b][n] # Absent
  /\ files' = [files EXCEPT ![b][n] = Absent]
  /\ troubles' = troubles + 1
  /\ lastOp' = "env" /\ lastLinks' = NoRun /\ report' = NoReport
  /\ tampered' = TRUE
  /\ Blank
  /\ UNCHANGED checksumFile
  /\ UNCHANGED envFrame

TamperFile(b, n, bytes) ==
  /\ pc = "menu" /\ troubles < MaxTroubles
  /\ files[b][n] # Absent /\ files[b][n] # bytes
  /\ files' = [files EXCEPT ![b][n] = bytes]
  /\ troubles' = troubles + 1
  /\ lastOp' = "env" /\ lastLinks' = NoRun /\ report' = NoReport
  /\ tampered' = TRUE
  /\ Blank
  /\ UNCHANGED checksumFile
  /\ UNCHANGED envFrame

RemoveChecksums ==
  /\ pc = "menu" /\ troubles < MaxTroubles
  /\ checksumFile # NoFile
  /\ checksumFile' = NoFile
  /\ troubles' = troubles + 1
  /\ lastOp' = "env" /\ lastLinks' = NoRun /\ report' = NoReport
  /\ tampered' = TRUE
  /\ Blank
  /\ UNCHANGED files
  /\ UNCHANGED envFrame

\* ------------------------------------------------------------ specification
Task(p) ==
  \/ FetchFail(p)
  \/ FetchOk(p)
  \/ WriteFinish(p)
  \/ WriteError(p)
  \/ TransferAbort(p)
  \/ HashOk(p)
  \/ HashFail(p)

Next ==
  \/ \E links \in Listings : downloadAllPdfs(links)
  \/ \E p \in DOMAIN st : Task(p)
  \/ Barrier
  \/ \E p \in DOMAIN st : EnsureDirFail(p)
  \/ Interrupt
  \/ verifyChecksums
  \/ \E b \in Batches, n \in Touchable : RemoveFile(b, n)
  \/ \E b \in Batches, n \in Touchable, bytes \in Damage : TamperFile(b, n, bytes)
  \/ RemoveChecksums

Spec == Init /\ [][Next]_vars

\* Download passes over listings with a repeated file name.
NextTwin ==
  \/ \E links \in TwinListings : downloadAllPdfs(links)
  \/ \E p \in DOMAIN st : Task(p)
  \/ Barrier

SpecTwin == Init /\ [][NextTwin]_vars

\* Download passes left to themselves: no verification, nothing from outside.
\* Every continuation of a started task runs once its awaited event has
\* occurred, and the loop goes on once Promise.all has settled.
NextLive ==
  \/ \E links \in {Listing(Settled, "plain"), Listing(MaxLen, "plain")} : downloadAllPdfs(links)
  \/ \E p \in DOMAIN st : Task(p)
  \/ Barrier

SpecLive ==
  /\ Init /\ [][NextLive]_vars
  /\ WF_vars(\E p \in DOMAIN st : Task(p))
  /\ WF_vars(Barrier)

\* ------------------------------------------------------------ properties
\* A pass has ended and its variables are still in memory.
PassDone == pc = "menu" /\ lastOp = "download"

\* The listing entry of position p has a record in data.
Recorded(data, p) == \E k \in DOMAIN data : data[k].url = At(pdfLinks, p)

\* The positions of the running pass by status.
Succeeded == {p \in DOMAIN st : st[p] = "ok"}
Failed == {p \in DOMAIN st : st[p] = "fail"}
Flying == {p \in DOMAIN st : st[p] \in InFlight}

\* The folder number the specification gives for 1-based position p.
PartitionOf(p) == ((p - 1) \div batchSize) + 1

\* C1: the file of the entry at 1-based position p is stored in folder
\* floor((p - 1) / 500) + 1, so positions 1..500 are in Batch_1: once the
\* download of position p has written its file, the file is in that folder.
C1_PartitionOfPosition ==
  \A p \in DOMAIN st :
    st[p] \in {"hash", "ok"} => files[PartitionOf(p)][FileName(p)] = Body(At(pdfLinks, p))

\* C2 as stated: a pass over the listing of the pass before it changes no
\* stored file and no entry of the checksum file, and fetches nothing.
C2_SecondPassIdle ==
  [][rerun' \in {"same", "settled"} =>
       (files' = files /\ checksumFile' = checksumFile /\ fetched' = {})]_vars

\* C2 amended: a pass over the listing of the pass before it, started when
\* every entry of the listing has its file in the folder of its position,
\* changes no stored file and no entry of the checksum file, and fetches
\* nothing.
C2_SettledPassIdle ==
  [][rerun' = "settled" =>
       (files' = files /\ checksumFile' = checksumFile /\ fetched' = {})]_vars

C2_Witness ==
  /\ PassDone /\ rerun = "settled"
  /\ Length(pdfLinks) = MaxLen
  /\ \E n \in Window : n > Settled /\ Entry(checksumFile, n) # NoEntry

Cursor == Least(i + CHUNK_SIZE, Length(pdfLinks))

\* C4: at most 5 downloads are in flight, and no download of a group has
\* started while a download of an earlier group has not settled.
C4_GroupBarrier ==
  /\ Cardinality(Flying) <= CHUNK_SIZE
  /\ \A p \in DOMAIN st : \A q \in (DOMAIN st \cup {Cursor}) \ {0} :
       (GroupOf(p) < GroupOf(q) /\ StatusAt(q) # "idle") => st[p] \in Done

C4_Witness ==
  /\ Cardinality(Flying) = CHUNK_SIZE
  /\ \E q \in DOMAIN st : st[q] = "idle"
  /\ \E p \in DOMAIN st : st[p] = "skip" /\ GroupOf(p) < i

\* The checksum object cs has an entry for name n.
Has(cs, n) == IF n \in Ballast THEN cs.old ELSE cs.new[n] # NoEntry

\* C5: at every point of a pass the checksum file holds every entry loaded
\* at the start of the pass and the entry of every download that has
\* succeeded so far, with the digest of its record.
C5_ChecksumsDurable ==
  pc = "run" =>
    /\ \A n \in Names : Has(loaded, n) => (checksumFile # NoFile /\ Has(checksumFile[1], n))
    /\ \A p \in Succeeded :
         \E k \in DOMAIN indexData :
           /\ indexData[k].url = At(pdfLinks, p)
           /\ Entry(checksumFile, FileName(p)) = indexData[k].checksum

C5_Witness ==
  /\ pc = "run"
  /\ Succeeded # {} /\ Flying # {}
  /\ \E n \in Window : Get(loaded, n) # NoEntry

\* C6: after a pass the index file holds one record for each download of
\* the pass and nothing else, and an entry skipped because its file was
\* there has no record, its checksum entry as loaded, and no fetch.
C6_IndexOfThisPass ==
  PassDone =>
    /\ indexFile # NoFile
    /\ Len(indexFile[1]) = Cardinality(Succeeded)
    /\ \A p \in Succeeded :
         \E k \in DOMAIN indexFile[1] :
           indexFile[1][k] = Record(At(pdfLinks, p), Body(At(pdfLinks, p)),
                                    md5(Body(At(pdfLinks, p))))
    /\ \A p \in 1..Length(pdfLinks) :
         StatusAt(p) = "skip" =>
           /\ ~Recorded(indexFile[1], p)
           /\ p \notin fetched
           /\ Entry(checksumFile, basename(At(pdfLinks, p)))
                = Get(loaded, basename(At(pdfLinks, p)))

C6_Witness ==
  /\ PassDone
  /\ Succeeded # {}
  /\ \E p \in DOMAIN st : st[p] = "skip" /\ Get(loaded, FileName(p)) # NoEntry

\* C7: for every entry (F, D) of the checksum file, a verification pass
\* reports F as CORRUPTED if the bytes of F's stored file now have a
\* digest other than D, and as MISSING if no folder holds F; in both
\* cases the summary is not "all intact".
C7_VerifyDetects ==
  (lastOp = "verify" /\ checksumFile # NoFile) =>
    \A n \in Window :
      (Entry(checksumFile, n) # NoEntry /\ origin[n] # 0) =>
        /\ (/\ files[origin[n]][n] # Absent
            /\ md5(files[origin[n]][n]) # Entry(checksumFile, n))
             => (report.result.new[n] = "CORRUPTED" /\ report.outcome = "problems")
        /\ (\A b \in Batches : files[b][n] = Absent)
             => (report.result.new[n] = "MISSING" /\ report.outcome = "problems")

\* C8: a verification pass started when the checksum file does not exist
\* reports that and ends; it lists no folder and hashes no file.
C8_NoChecksumFile ==
  (lastOp = "verify" /\ checksumFile = NoFile) =>
    (report.outcome = "nochecksums" /\ report.listed = {} /\ report.hashed = 0)

C8_Witness == lastOp = "verify" /\ checksumFile = NoFile /\ dirs # {}

\* C9: a verification pass, whatever it reports, leaves the checksum file,
\* the index file, the folders and every stored file as they were.
C9_VerifyReadOnly ==
  [][lastOp' = "verify" =>
       (files' = files /\ dirs' = dirs /\ checksumFile' = checksumFile
        /\ indexFile' = indexFile)]_vars

C9_Witness ==
  /\ lastOp = "verify" /\ report.outcome = "problems"
  /\ \E n \in Window : report.result.new[n] = "MISSING"

\* C10: a pass over an empty listing fetches nothing, leaves the stored
\* files, the checksum file and the index file as they were, and returns
\* to the menu.
C10_EmptyListingIdle ==
  [][(pc = "menu" /\ lastOp' = "download" /\ pdfLinks' = NoLinks) =>
       (/\ pc' = "menu" /\ fetched' = {}
        /\ files' = files /\ checksumFile' = checksumFile
        /\ indexFile' = indexFile)]_vars

\* C11: no step of a download pass or of a verification pass removes an
\* entry from the checksum file, and the entry of a position that a pass
\* skips keeps its digest through the pass.  (The entries of the Ballast
\* names are there together or not at all: the first stands for them.)
C11_StoreCumulative ==
  [][lastOp' # "env" =>
       /\ \A n \in Window \cup {Min(Ballast)} :
            Entry(checksumFile, n) # NoEntry => Entry(checksumFile', n) # NoEntry
       /\ \A p \in DOMAIN st' :
            st'[p] = "skip" =>
              Entry(checksumFile', basename(At(pdfLinks', p)))
                = Entry(checksumFile, basename(At(pdfLinks', p)))]_vars

C11_Witness ==
  /\ lastOp = "verify" /\ checksumFile # NoFile
  /\ checksumFile[1].old
  /\ \E n \in Window : n > Settled /\ Entry(checksumFile, n) # NoEntry

\* The number of files in folder Batch_b.
FileCount(b) ==
  Cardinality({n \in Ballast : getBatchFolder(n) = b})
    + Cardinality({n \in Window : files[b][n] # Absent})

\* C12: no folder holds more than 500 files (every listing of the model
\* has unique file names).
C12_FolderCapacity == \A b \in Batches : FileCount(b) <= batchSize

\* C13: a failure of getBatchFolder for one entry ends the download of
\* that entry only: the process does not end with it, and the pass goes on
\* with the other entries of the group and with the later groups until it
\* has written the index file and is back at the menu.
C13_FolderFailureIsolated ==
  /\ pc # "crashed"
  /\ (\E k \in DOMAIN st : st[k] = "nodir") => pc \in {"run", "menu"}

\* C14: whatever the order in which the downloads of a group complete,
\* once the pass is beyond the group the checksum file and the object in
\* memory hold the entry of every download of the group that succeeded,
\* and at the end of the pass every other entry is as it was loaded.
C14_UpdatesSerialized ==
  /\ \A p \in Succeeded :
       (PassDone \/ GroupOf(p) < i) =>
         /\ Entry(checksumFile, FileName(p)) = md5(Body(At(pdfLinks, p)))
         /\ Get(checksums, FileName(p)) = md5(Body(At(pdfLinks, p)))
  /\ PassDone =>
       \A n \in Window :
         (\A p \in Succeeded : FileName(p) # n) => Entry(checksumFile, n) = Get(loaded, n)

C14_Witness ==
  /\ pc = "run"
  /\ \E p, q \in Succeeded :
       /\ p < q /\ GroupOf(p) = GroupOf(q) /\ GroupOf(q) < i
       /\ \E j, k \in DOMAIN indexData :
            j < k /\ indexData[j].url = At(pdfLinks, q) /\ indexData[k].url = At(pdfLinks, p)

Twins == {pq \in (DOMAIN st) \X (DOMAIN st) : pq[1] < pq[2] /\ FileName(pq[1]) = FileName(pq[2])}

Launched(q) ==
  /\ q \in DOMAIN st' /\ st'[q] \in {"fetch", "skip"}
  /\ pc = "menu" \/ st[q] = "idle"

C17_PassEnds == (pc = "run") ~> PassDone

C19_VerifyAllOk ==
  (lastOp = "verify" /\ ~tampered /\ checksumFile # NoFile) =>
    /\ report.outcome = "intact"
    /\ \A n \in Names :
         Has(checksumFile[1], n) => VerdictOn(report.result, n) = "OK"

\* The position of the running pass whose listing entry is url.
PosOf(url) == CHOOSE p \in DOMAIN st : At(pdfLinks, p) = url

\* The records of data go by groups, earlier groups first.
ByGroups(data) ==
  \A j, k \in DOMAIN data : j < k => GroupOf(PosOf(data[j].url)) <= GroupOf(PosOf(data[k].url))

\* C20: in the index of a pass the records of an earlier group come before
\* the records of a later group; within a group each download adds its
\* record at the end when it completes, so the records of a group are in
\* the order of completion, and the index file holds the records in the
\* order in which they were added.
C20_IndexOrder ==
  /\ []((pc = "run" \/ PassDone) => ByGroups(indexData))
  /\ [](PassDone => (indexFile = << indexData >> /\ ByGroups(indexFile[1])))
  /\ [][pc = "run" /\ pc' \in {"run", "menu"} =>
          IF \E p \in DOMAIN st : st[p] # "ok" /\ st'[p] = "ok"
          THEN \E p \in DOMAIN st :
                 /\ st[p] # "ok" /\ st'[p] = "ok"
                 /\ Len(indexData') = Len(indexData) + 1
                 /\ SubSeq(indexData', 1, Len(indexData)) = indexData
                 /\ indexData'[Len(indexData')].url = At(pdfLinks, p)
          ELSE indexData' = indexData]_vars

C20_Witness ==
  /\ PassDone /\ indexFile # NoFile
  /\ \E j, k, l \in DOMAIN indexFile[1] :
       /\ j < k /\ k < l
       /\ GroupOf(PosOf(indexFile[1][j].url)) = GroupOf(PosOf(indexFile[1][k].url))
       /\ PosOf(indexFile[1][j].url) > PosOf(indexFile[1][k].url)
       /\ GroupOf(PosOf(indexFile[1][k].url)) < GroupOf(PosOf(indexFile[1][l].url))

====
